---------------------------- MODULE Spec2Model ----------------------------
(***************************************************************************)
(* Frame synchronisation and swap-chain lifecycle of the Vulkray renderer  *)
(* (src/src/vulkan/Vulkan.cxx).                                            *)
(*                                                                         *)
(* One CPU thread runs the frame loop of Vulkan::Vulkan; its position is   *)
(* pc.  Every wrapper that renderFrame calls is one action, because the    *)
(* GPU timeline (semaphore signal, start and retirement of a submission)   *)
(* interleaves with the CPU between the Vulkan calls.                      *)
(* recreateSwapChain is a sub-routine entered from two call sites; ret     *)
(* holds the place it returns to.  Once the loop has ended, by a closed    *)
(* window or by an exception, one of the teardown sequences of the         *)
(* sources runs.                                                           *)
(***************************************************************************)
EXTENDS Integers, Sequences, FiniteSets

(* ------------------------------ constants ------------------------------ *)

\* Vulkan::MAX_FRAMES_IN_FLIGHT (declared in Vulkan.h; spec: "typically 2")
MAX_FRAMES_IN_FLIGHT == 2

\* bound: number of renderFrame calls the frame loop makes
MaxFrames == 3

\* bound: largest image count the presentation layer may choose
MaxImages == 2

Slots == 0 .. (MAX_FRAMES_IN_FLIGHT - 1)

\* the value of the local imageIndex before anything was stored in it
Uninit == -1

\* no fence was waited on yet in this frame
NoSlot == MAX_FRAMES_IN_FLIGHT

VK_SUCCESS == "VK_SUCCESS"
VK_SUBOPTIMAL_KHR == "VK_SUBOPTIMAL_KHR"
VK_ERROR_OUT_OF_DATE_KHR == "VK_ERROR_OUT_OF_DATE_KHR"
VK_ERROR_DEVICE_LOST == "VK_ERROR_DEVICE_LOST"
NoStatus == "none"

\* what vkAcquireNextImageKHR and vkQueuePresentKHR may return
SwapStatuses ==
    {VK_SUCCESS, VK_SUBOPTIMAL_KHR, VK_ERROR_OUT_OF_DATE_KHR, VK_ERROR_DEVICE_LOST}

\* what vkQueueSubmit may return
SubmitStatuses == {VK_SUCCESS, VK_ERROR_DEVICE_LOST}

\* objects recreateSwapChain rebuilds, and the objects it must leave alone
SwapObjects == {"swapChain", "imageViews", "frameBuffers"}

FixedObjects ==
    {"renderPass", "graphicsPipeline", "graphicsCommandPool", "transferCommandPool",
     "graphicsCommandBuffers", "imageAvailableSemaphores",
     "renderFinishedSemaphores", "inFlightFences"}

Objects == SwapObjects \cup FixedObjects

VK_NULL_HANDLE == 0

NoSnap == [taken |-> FALSE]

(* ------------------------------ state ---------------------------------- *)

VARIABLES
    pc,                 \* position of the CPU thread
    ret,                \* call site recreateSwapChain returns to
    frameIndex,         \* Vulkan::frameIndex
    frames,             \* renderFrame calls made so far
    shouldClose,        \* glfwWindowShouldClose
    framebufferResized, \* Vulkan::framebufferResized, set by the resize callback
    imageIndex,         \* renderFrame's local imageIndex
    imageGen,           \* generation of the swap chain imageIndex was acquired from
    generation,         \* number of swap chains created so far
    handle,             \* handle of every object, VK_NULL_HANDLE when destroyed
    nImages,            \* m_swapChain->swapChainImages.size()
    nViews,             \* m_imageViews->swapChainImageViews.size()
    nFBs,               \* m_frameBuffers->swapChainFrameBuffers.size()
    fence,              \* inFlightFences[s] is signaled
    imgAvail,           \* imageAvailableSemaphores[s]: unsignaled, pending, signaled
    queue,              \* graphics queue: submissions not yet retired, oldest first
    fbSize,             \* width/height locals of the un-minimize wait
    snap,               \* state on entry of recreateSwapChain
    acqStatus,          \* this frame: status vkAcquireNextImageKHR returned
    subStatus,          \* this frame: status of the queue submission
    presStatus,         \* this frame: status vkQueuePresentKHR returned
    rebuilds,           \* this frame: swap chains created
    waitedSlot,         \* this frame: slot whose fence was waited on
    frameOps,           \* this frame: the calls renderFrame made, in order
    clean,              \* no resize notification, every acquire and present VK_SUCCESS
    nAcquire,           \* vkAcquireNextImageKHR calls made so far
    nSubmit,            \* queue submissions made so far
    nPresent,           \* vkQueuePresentKHR calls made so far
    teardown,           \* the teardown path that ran, "none" before it
    tdLog,              \* teardown: the calls it issued, in order
    destroyedTwice      \* teardown: objects destroyed through a stale handle

cpuVars == <<pc, ret, frameIndex, frames, imageIndex, imageGen>>
winVars == <<shouldClose, framebufferResized, fbSize>>
swapVars == <<generation, handle, nImages, nViews, nFBs>>
gpuVars == <<fence, imgAvail, queue>>
frameVars == <<acqStatus, subStatus, presStatus, rebuilds, waitedSlot>>
countVars == <<nAcquire, nSubmit, nPresent>>
histVars == <<frameOps, clean, countVars>>
tdVars == <<teardown, tdLog, destroyedTwice>>

vars == <<cpuVars, winVars, swapVars, gpuVars, frameVars, snap, histVars, tdVars>>

\* state after the constructor's initialisation (lines 16-52): every module
\* is created once, the fences start signaled (the first frame waits on one)
Init ==
    /\ pc = "loop"
    /\ ret = "none"
    /\ frameIndex = 0
    /\ frames = 0
    /\ shouldClose = FALSE
    /\ framebufferResized = FALSE
    /\ imageIndex = Uninit
    /\ imageGen = 0
    /\ generation = 1
    /\ handle = [o \in Objects |-> 1]
    /\ nImages \in 1 .. MaxImages
    /\ nViews = nImages
    /\ nFBs = nImages
    /\ fence = [s \in Slots |-> TRUE]
    /\ imgAvail = [s \in Slots |-> "unsignaled"]
    /\ queue = <<>>
    /\ fbSize = "unread"
    /\ snap = NoSnap
    /\ acqStatus = NoStatus
    /\ subStatus = NoStatus
    /\ presStatus = NoStatus
    /\ rebuilds = 0
    /\ waitedSlot = NoSlot
    /\ frameOps = <<>>
    /\ clean = TRUE
    /\ nAcquire = 0
    /\ nSubmit = 0
    /\ nPresent = 0
    /\ teardown = "none"
    /\ tdLog = <<>>
    /\ destroyedTwice = {}

(* --------------------------- the frame loop ---------------------------- *)

\* what recreateSwapChain must leave alone, taken on its entry
Snapshot ==
    [taken |-> TRUE,
     handle |-> [o \in FixedObjects |-> handle[o]],
     fence |-> fence,
     imgAvail |-> imgAvail,
     frameIndex |-> frameIndex]

\* a call of recreateSwapChain from call site `site`: width = 0, height = 0
EnterRecreate(site) ==
    /\ pc' = "rb_focus"
    /\ ret' = site
    /\ fbSize' = "unread"
    /\ snap' = Snapshot

\* while (!glfwWindowShouldClose(window)) { glfwPollEvents(); renderFrame(); }
\* glfwPollEvents runs the window callbacks: a resize notification sets
\* framebufferResized, a close request sets the should-close flag.
\* Entering renderFrame declares imageIndex without a value.
FrameLoop ==
    /\ pc = "loop"
    /\ IF shouldClose
          THEN /\ pc' = "closed"
               /\ UNCHANGED <<ret, frameIndex, frames, imageIndex, imageGen, winVars,
                              swapVars, gpuVars, frameVars, snap, histVars>>
          ELSE /\ frames < MaxFrames
               /\ \E ev \in {"none", "resize", "close"} :
                     /\ shouldClose' = (ev = "close")
                     /\ framebufferResized' = (framebufferResized \/ ev = "resize")
                     /\ clean' = (clean /\ ev # "resize")
               /\ frameOps' = <<>>
               /\ UNCHANGED countVars
               /\ pc' = "wait"
               /\ frames' = frames + 1
               /\ imageIndex' = Uninit
               /\ imageGen' = 0
               /\ acqStatus' = NoStatus
               /\ subStatus' = NoStatus
               /\ presStatus' = NoStatus
               /\ rebuilds' = 0
               /\ waitedSlot' = NoSlot
               /\ UNCHANGED <<ret, frameIndex, fbSize, swapVars, gpuVars, snap>>
    /\ UNCHANGED tdVars

(* ----------------------------- renderFrame ----------------------------- *)

\* vkWaitForFences(inFlightFences[frameIndex], UINT64_MAX): blocks until signaled
waitForPreviousFrame ==
    /\ pc = "wait"
    /\ fence[frameIndex]
    /\ pc' = "acquire"
    /\ waitedSlot' = frameIndex
    /\ frameOps' = Append(frameOps, "wait")
    /\ UNCHANGED <<ret, frameIndex, frames, imageIndex, imageGen, winVars, swapVars,
                   gpuVars, snap, acqStatus, subStatus, presStatus, rebuilds,
                   clean, countVars, tdVars>>

\* getNextSwapChainImage as it would be if the fence were reset before the
\* status is looked at
getNextSwapChainImageResetsFenceFirst ==
    /\ pc = "acquire"
    /\ \E result \in SwapStatuses :
          /\ acqStatus' = result
          /\ clean' = (clean /\ result = VK_SUCCESS)
          /\ fence' = [fence EXCEPT ![frameIndex] = FALSE]
          /\ IF result = VK_ERROR_OUT_OF_DATE_KHR
                THEN /\ EnterRecreate("acquire")
                     /\ UNCHANGED <<imageIndex, imageGen, imgAvail>>
                ELSE IF result # VK_SUCCESS /\ result # VK_SUBOPTIMAL_KHR
                THEN /\ pc' = "thrown"
                     /\ UNCHANGED <<ret, fbSize, snap, imageIndex, imageGen, imgAvail>>
                ELSE /\ \E i \in 0 .. (nImages - 1) : imageIndex' = i
                     /\ imageGen' = generation
                     /\ imgAvail' = [imgAvail EXCEPT ![frameIndex] = "pending"]
                     /\ pc' = "record"
                     /\ UNCHANGED <<ret, fbSize, snap>>
    /\ nAcquire' = nAcquire + 1
    /\ frameOps' = Append(frameOps, "acquire")
    /\ UNCHANGED <<frameIndex, frames, shouldClose, framebufferResized, swapVars,
                   queue, subStatus, presStatus, rebuilds, waitedSlot,
                   nSubmit, nPresent, tdVars>>

\* getNextSwapChainImage as it would be if every status but success and
\* suboptimal were answered with a rebuild
getNextSwapChainImageRebuildsOnError ==
    /\ pc = "acquire"
    /\ \E result \in SwapStatuses :
          /\ acqStatus' = result
          /\ clean' = (clean /\ result = VK_SUCCESS)
          /\ IF result # VK_SUCCESS /\ result # VK_SUBOPTIMAL_KHR
                THEN /\ EnterRecreate("acquire")
                     /\ UNCHANGED <<imageIndex, imageGen, imgAvail, fence>>
                ELSE /\ \E i \in 0 .. (nImages - 1) : imageIndex' = i
                     /\ imageGen' = generation
                     /\ imgAvail' = [imgAvail EXCEPT ![frameIndex] = "pending"]
                     /\ fence' = [fence EXCEPT ![frameIndex] = FALSE]
                     /\ pc' = "record"
                     /\ UNCHANGED <<ret, fbSize, snap>>
    /\ nAcquire' = nAcquire + 1
    /\ frameOps' = Append(frameOps, "acquire")
    /\ UNCHANGED <<frameIndex, frames, shouldClose, framebufferResized, swapVars,
                   queue, subStatus, presStatus, rebuilds, waitedSlot,
                   nSubmit, nPresent, tdVars>>

\* vkAcquireNextImageKHR(swapChain, UINT64_MAX, imageAvailableSemaphores[frameIndex],
\* VK_NULL_HANDLE, imageIndex).  Success and suboptimal store an index of the
\* current swap chain and make the semaphore's signal pending.  Out-of-date
\* stores nothing, rebuilds the swap chain and returns to renderFrame, which
\* goes on with its next statement.  Any other status throws.  The fence is
\* reset only on the path that did not return early.
getNextSwapChainImage ==
    /\ pc = "acquire"
    /\ \E result \in SwapStatuses :
          /\ acqStatus' = result
          /\ clean' = (clean /\ result = VK_SUCCESS)
          /\ IF result = VK_ERROR_OUT_OF_DATE_KHR
                THEN /\ EnterRecreate("acquire")
                     /\ UNCHANGED <<imageIndex, imageGen, imgAvail, fence>>
                ELSE IF result # VK_SUCCESS /\ result # VK_SUBOPTIMAL_KHR
                THEN /\ pc' = "thrown"
                     /\ UNCHANGED <<ret, fbSize, snap, imageIndex, imageGen,
                                    imgAvail, fence>>
                ELSE /\ \E i \in 0 .. (nImages - 1) : imageIndex' = i
                     /\ imageGen' = generation
                     /\ imgAvail' = [imgAvail EXCEPT ![frameIndex] = "pending"]
                     /\ fence' = [fence EXCEPT ![frameIndex] = FALSE]
                     /\ pc' = "record"
                     /\ UNCHANGED <<ret, fbSize, snap>>
    /\ nAcquire' = nAcquire + 1
    /\ frameOps' = Append(frameOps, "acquire")
    /\ UNCHANGED <<frameIndex, frames, shouldClose, framebufferResized, swapVars,
                   queue, subStatus, presStatus, rebuilds, waitedSlot,
                   nSubmit, nPresent, tdVars>>

\* vkResetCommandBuffer(graphicsCommandBuffers[frameIndex]) and
\* recordGraphicsCommands(..., imageIndex, ..., swapChainFrameBuffers, ...).
\* imageIndex is passed by value: when nothing was stored in it the value read
\* is whatever the stack held, and an index beyond the framebuffer vector may
\* end the process.
resetGraphicsCmdBuffer ==
    /\ pc = "record"
    /\ IF imageIndex = Uninit
          THEN \E g \in 0 .. MaxImages : imageIndex' = g
          ELSE imageIndex' = imageIndex
    /\ IF imageIndex' >= nFBs
          THEN pc' \in {"submit", "crashed"}
          ELSE pc' = "submit"
    /\ frameOps' = Append(frameOps, "record")
    /\ UNCHANGED <<ret, frameIndex, frames, imageGen, winVars, swapVars, gpuVars,
                   frameVars, snap, clean, countVars, tdVars>>

\* whether a submission for slot s waits on imageAvailableSemaphores[s]: it
\* does when a signal of the semaphore is pending or done; a wait on a binary
\* semaphore that nothing will signal is invalid usage, which a driver either
\* honours (the submission blocks) or drops
SemaphoreWaits(s) ==
    IF imgAvail[s] = "unsignaled" THEN BOOLEAN ELSE {TRUE}

\* this frame's vkAcquireNextImageKHR handed out an image, and with it made a
\* signal of imageAvailableSemaphores[frameIndex] pending
Acquired == acqStatus \in {VK_SUCCESS, VK_SUBOPTIMAL_KHR}

\* CommandBuffer::submitCommandBuffer raises when the queue rejects the work
SubmitRejected(result) == result # VK_SUCCESS

\* submitGraphicsCmdBuffer as it would be if renderFrame went on after a
\* failed submission
submitGraphicsCmdBufferIgnoresFailure ==
    /\ pc = "submit"
    /\ \E result \in SubmitStatuses :
          /\ subStatus' = result
          /\ IF ~SubmitRejected(result)
                THEN /\ \E w \in SemaphoreWaits(frameIndex) :
                          queue' = Append(queue, [slot |-> frameIndex,
                                                  state |-> "queued", waits |-> w,
                                                  acquired |-> Acquired])
                     /\ IF fence[frameIndex]
                           THEN \E f \in BOOLEAN : fence' = [fence EXCEPT ![frameIndex] = f]
                           ELSE fence' = fence
                ELSE UNCHANGED <<queue, fence>>
          /\ pc' = "present"
    /\ nSubmit' = nSubmit + 1
    /\ frameOps' = Append(frameOps, "submit")
    /\ UNCHANGED <<ret, frameIndex, frames, imageIndex, imageGen, winVars, swapVars,
                   imgAvail, snap, acqStatus, presStatus, rebuilds, waitedSlot,
                   clean, nAcquire, nPresent, tdVars>>

\* CommandBuffer::submitCommandBuffer(&graphicsCommandBuffers[frameIndex],
\* graphicsQueue, inFlightFences[frameIndex], imageAvailableSemaphores[frameIndex],
\* renderFinishedSemaphores[frameIndex], ...): the submission waits on the slot's
\* imageAvailable semaphore and signals the slot's fence when it retires; a
\* rejected submission throws.  Submitting with a fence that is still signaled
\* is invalid usage: the fence either stays signaled or is taken as pending.
submitGraphicsCmdBuffer ==
    /\ pc = "submit"
    /\ \E result \in SubmitStatuses :
          /\ subStatus' = result
          /\ IF ~SubmitRejected(result)
                THEN /\ \E w \in SemaphoreWaits(frameIndex) :
                          queue' = Append(queue, [slot |-> frameIndex,
                                                  state |-> "queued", waits |-> w,
                                                  acquired |-> Acquired])
                     /\ IF fence[frameIndex]
                           THEN \E f \in BOOLEAN : fence' = [fence EXCEPT ![frameIndex] = f]
                           ELSE fence' = fence
                     /\ pc' = "present"
                ELSE /\ pc' = "thrown"
                     /\ UNCHANGED <<queue, fence>>
    /\ nSubmit' = nSubmit + 1
    /\ frameOps' = Append(frameOps, "submit")
    /\ UNCHANGED <<ret, frameIndex, frames, imageIndex, imageGen, winVars, swapVars,
                   imgAvail, snap, acqStatus, presStatus, rebuilds, waitedSlot,
                   clean, nAcquire, nPresent, tdVars>>

\* presentImageBuffer as it would be if only the status decided on the rebuild
\* and the resize flag were cleared on every present
presentImageBufferDropsResize ==
    /\ pc = "present"
    /\ \E result \in SwapStatuses :
          /\ presStatus' = result
          /\ clean' = (clean /\ result = VK_SUCCESS)
          /\ framebufferResized' = FALSE
          /\ IF \/ result = VK_ERROR_OUT_OF_DATE_KHR
                \/ result = VK_SUBOPTIMAL_KHR
                THEN EnterRecreate("present")
                ELSE IF result # VK_SUCCESS
                THEN /\ pc' = "thrown"
                     /\ UNCHANGED <<ret, fbSize, snap>>
                ELSE /\ pc' = "advance"
                     /\ UNCHANGED <<ret, fbSize, snap>>
    /\ nPresent' = nPresent + 1
    /\ frameOps' = Append(frameOps, "present")
    /\ UNCHANGED <<frameIndex, frames, imageIndex, imageGen, shouldClose, swapVars,
                   gpuVars, acqStatus, subStatus, rebuilds, waitedSlot,
                   nAcquire, nSubmit, tdVars>>

\* vkQueuePresentKHR(presentQueue, {swapChain, imageIndex}).  Out-of-date,
\* suboptimal or a set framebufferResized flag clears the flag and rebuilds;
\* otherwise any status but success throws.
presentImageBuffer ==
    /\ pc = "present"
    /\ \E result \in SwapStatuses :
          /\ presStatus' = result
          /\ clean' = (clean /\ result = VK_SUCCESS)
          /\ IF \/ result = VK_ERROR_OUT_OF_DATE_KHR
                \/ result = VK_SUBOPTIMAL_KHR
                \/ framebufferResized
                THEN /\ framebufferResized' = FALSE
                     /\ EnterRecreate("present")
                ELSE IF result # VK_SUCCESS
                THEN /\ pc' = "thrown"
                     /\ UNCHANGED <<ret, fbSize, snap, framebufferResized>>
                ELSE /\ pc' = "advance"
                     /\ UNCHANGED <<ret, fbSize, snap, framebufferResized>>
    /\ nPresent' = nPresent + 1
    /\ frameOps' = Append(frameOps, "present")
    /\ UNCHANGED <<frameIndex, frames, imageIndex, imageGen, shouldClose, swapVars,
                   gpuVars, acqStatus, subStatus, rebuilds, waitedSlot,
                   nAcquire, nSubmit, tdVars>>

\* the advance as it would be if the slot followed the acquired image
advanceFrameIndexByImage ==
    /\ pc = "advance"
    /\ frameIndex' = (imageIndex + 1) % MAX_FRAMES_IN_FLIGHT
    /\ pc' = "loop"
    /\ UNCHANGED <<ret, frames, imageIndex, imageGen, winVars, swapVars, gpuVars,
                   frameVars, snap,
                   histVars, tdVars>>

\* frameIndex = (frameIndex + 1) % MAX_FRAMES_IN_FLIGHT, and back to the loop
advanceFrameIndex ==
    /\ pc = "advance"
    /\ frameIndex' = (frameIndex + 1) % MAX_FRAMES_IN_FLIGHT
    /\ pc' = "loop"
    /\ UNCHANGED <<ret, frames, imageIndex, imageGen, winVars, swapVars, gpuVars,
                   frameVars, snap,
                   histVars, tdVars>>

renderFrame ==
    \/ waitForPreviousFrame
    \/ getNextSwapChainImage
    \/ resetGraphicsCmdBuffer
    \/ submitGraphicsCmdBuffer
    \/ presentImageBuffer
    \/ advanceFrameIndex

(* -------------------------- recreateSwapChain -------------------------- *)

\* the un-minimize wait as it would be without its loop
waitForWindowFocusNoLoop ==
    /\ pc = "rb_focus"
    /\ \E sz \in {"zero", "nonzero"} : fbSize' = sz
    /\ pc' = "rb_idle"
    /\ UNCHANGED <<ret, frameIndex, frames, imageIndex, imageGen, shouldClose,
                   framebufferResized, swapVars, gpuVars, frameVars, snap,
                   histVars, tdVars>>

\* glfwGetFramebufferSize(window, &width, &height) and the first test of
\* while (width == 0 || height == 0)
waitForWindowFocus ==
    /\ pc = "rb_focus"
    /\ \E sz \in {"zero", "nonzero"} : fbSize' = sz
    /\ pc' = IF fbSize' = "zero" THEN "rb_loop" ELSE "rb_idle"
    /\ UNCHANGED <<ret, frameIndex, frames, imageIndex, imageGen, shouldClose,
                   framebufferResized, swapVars, gpuVars, frameVars, snap,
                   histVars, tdVars>>

\* loop body, first statement: glfwGetFramebufferSize(window, &width, &height)
waitForWindowFocusRead ==
    /\ pc = "rb_loop"
    /\ \E sz \in {"zero", "nonzero"} : fbSize' = sz
    /\ pc' = "rb_events"
    /\ UNCHANGED <<ret, frameIndex, frames, imageIndex, imageGen, shouldClose,
                   framebufferResized, swapVars, gpuVars, frameVars, snap,
                   histVars, tdVars>>

\* loop body, second statement: glfwWaitEvents() returns once an event was
\* handled (its callback may set framebufferResized or the should-close flag);
\* then the loop condition is tested on the sizes read before it
waitForWindowFocusEvents ==
    /\ pc = "rb_events"
    /\ \E ev \in {"other", "resize", "close"} :
          /\ shouldClose' = (shouldClose \/ ev = "close")
          /\ framebufferResized' = (framebufferResized \/ ev = "resize")
    /\ pc' = IF fbSize = "zero" THEN "rb_loop" ELSE "rb_idle"
    /\ UNCHANGED <<ret, frameIndex, frames, imageIndex, imageGen, fbSize, swapVars,
                   gpuVars, frameVars, snap,
                   histVars, tdVars>>

\* the rebuild as it would be if it went on to destroy without waiting for
\* the device
waitForDeviceIdleNoWait ==
    /\ pc = "rb_idle"
    /\ pc' = "rb_reset_swapchain"
    /\ UNCHANGED <<ret, frameIndex, frames, imageIndex, imageGen, winVars, swapVars,
                   gpuVars, frameVars, snap,
                   histVars, tdVars>>

\* vkDeviceWaitIdle(logicalDevice): returns when no submission is outstanding
waitForDeviceIdle ==
    /\ pc = "rb_idle"
    /\ queue = <<>>
    /\ pc' = "rb_reset_swapchain"
    /\ UNCHANGED <<ret, frameIndex, frames, imageIndex, imageGen, winVars, swapVars,
                   gpuVars, frameVars, snap,
                   histVars, tdVars>>

\* m_swapChain.reset()
resetSwapChain ==
    /\ pc = "rb_reset_swapchain"
    /\ handle' = [handle EXCEPT !["swapChain"] = VK_NULL_HANDLE]
    /\ nImages' = 0
    /\ pc' = "rb_reset_views"
    /\ UNCHANGED <<ret, frameIndex, frames, imageIndex, imageGen, winVars, generation,
                   nViews, nFBs, gpuVars, frameVars, snap,
                   histVars, tdVars>>

\* m_imageViews.reset(): ~ImageViews destroys every view
resetImageViews ==
    /\ pc = "rb_reset_views"
    /\ handle' = [handle EXCEPT !["imageViews"] = VK_NULL_HANDLE]
    /\ nViews' = 0
    /\ pc' = "rb_reset_framebuffers"
    /\ UNCHANGED <<ret, frameIndex, frames, imageIndex, imageGen, winVars, generation,
                   nImages, nFBs, gpuVars, frameVars, snap,
                   histVars, tdVars>>

\* m_frameBuffers.reset()
resetFrameBuffers ==
    /\ pc = "rb_reset_framebuffers"
    /\ handle' = [handle EXCEPT !["frameBuffers"] = VK_NULL_HANDLE]
    /\ nFBs' = 0
    /\ pc' = "rb_create_swapchain"
    /\ UNCHANGED <<ret, frameIndex, frames, imageIndex, imageGen, winVars, generation,
                   nImages, nViews, gpuVars, frameVars, snap,
                   histVars, tdVars>>

\* the swap-chain creation as it would be if the rebuild re-initialised the
\* frame state as well (new fences, frameIndex back to 0)
createSwapChainReinitFrames ==
    /\ pc = "rb_create_swapchain"
    /\ generation' = generation + 1
    /\ handle' = [handle EXCEPT !["swapChain"] = generation',
                                !["inFlightFences"] = generation']
    /\ \E n \in 1 .. MaxImages : nImages' = n
    /\ rebuilds' = rebuilds + 1
    /\ frameIndex' = 0
    /\ pc' = "rb_create_views"
    /\ UNCHANGED <<ret, frames, imageIndex, imageGen, winVars, nViews, nFBs,
                   gpuVars, snap, acqStatus, subStatus, presStatus, waitedSlot,
                   histVars, tdVars>>

\* m_swapChain = std::make_unique<SwapChain>(this): a new swap chain whose image
\* count the presentation layer chooses; a failed creation throws
createSwapChain ==
    /\ pc = "rb_create_swapchain"
    /\ \E ok \in BOOLEAN :
          IF ok
             THEN /\ generation' = generation + 1
                  /\ handle' = [handle EXCEPT !["swapChain"] = generation']
                  /\ \E n \in 1 .. MaxImages : nImages' = n
                  /\ rebuilds' = rebuilds + 1
                  /\ pc' = "rb_create_views"
             ELSE /\ pc' = "thrown"
                  /\ UNCHANGED <<generation, handle, nImages, rebuilds>>
    /\ UNCHANGED <<ret, frameIndex, frames, imageIndex, imageGen, winVars, nViews, nFBs,
                   gpuVars, snap, acqStatus, subStatus, presStatus, waitedSlot,
                   histVars, tdVars>>

\* an image-view vector of a fixed size instead of the swap chain's image count
ImageViewsSizeFixed(images) == MAX_FRAMES_IN_FLIGHT

\* swapChainImageViews.resize(m_swapChain->swapChainImages.size())
ImageViewsSize(images) == images

\* m_imageViews = std::make_unique<ImageViews>(this): one view per swap-chain
\* image; a failed vkCreateImageView throws
createImageViews ==
    /\ pc = "rb_create_views"
    /\ \E ok \in BOOLEAN :
          IF ok
             THEN /\ nViews' = ImageViewsSize(nImages)
                  /\ handle' = [handle EXCEPT !["imageViews"] = generation]
                  /\ pc' = "rb_create_framebuffers"
             ELSE /\ pc' = "thrown"
                  /\ UNCHANGED <<nViews, handle>>
    /\ UNCHANGED <<ret, frameIndex, frames, imageIndex, imageGen, winVars, generation,
                   nImages, nFBs, gpuVars, frameVars, snap,
                   histVars, tdVars>>

\* FrameBuffers::FrameBuffers: one framebuffer per image view
FrameBuffersSize(views) == views

\* m_frameBuffers = std::make_unique<FrameBuffers>(this); a failed creation throws
createFrameBuffers ==
    /\ pc = "rb_create_framebuffers"
    /\ \E ok \in BOOLEAN :
          IF ok
             THEN /\ nFBs' = FrameBuffersSize(nViews)
                  /\ handle' = [handle EXCEPT !["frameBuffers"] = generation]
                  /\ pc' = "rb_done"
             ELSE /\ pc' = "thrown"
                  /\ UNCHANGED <<nFBs, handle>>
    /\ UNCHANGED <<ret, frameIndex, frames, imageIndex, imageGen, winVars, generation,
                   nImages, nViews, gpuVars, frameVars, snap,
                   histVars, tdVars>>

\* the return as it would be if a rebuild after present ended the frame
\* without the advance of frameIndex
returnFromRecreateSkipsAdvance ==
    /\ pc = "rb_done"
    /\ pc' = IF ret = "acquire" THEN "record" ELSE "loop"
    /\ ret' = "none"
    /\ snap' = NoSnap
    /\ UNCHANGED <<frameIndex, frames, imageIndex, imageGen, winVars, swapVars,
                   gpuVars, frameVars,
                   histVars, tdVars>>

\* recreateSwapChain returns: after getNextSwapChainImage's call the `return`
\* leaves getNextSwapChainImage only, and renderFrame goes on with
\* resetGraphicsCmdBuffer; after presentImageBuffer's call renderFrame goes on
\* with the advance of frameIndex
returnFromRecreate ==
    /\ pc = "rb_done"
    /\ pc' = IF ret = "acquire" THEN "record" ELSE "advance"
    /\ ret' = "none"
    /\ snap' = NoSnap
    /\ UNCHANGED <<frameIndex, frames, imageIndex, imageGen, winVars, swapVars,
                   gpuVars, frameVars,
                   histVars, tdVars>>

recreateSwapChain ==
    \/ waitForWindowFocus
    \/ waitForWindowFocusRead
    \/ waitForWindowFocusEvents
    \/ waitForDeviceIdle
    \/ resetSwapChain
    \/ resetImageViews
    \/ resetFrameBuffers
    \/ createSwapChain
    \/ createImageViews
    \/ createFrameBuffers
    \/ returnFromRecreate

(* ---------------------------- the GPU timeline ------------------------- *)

\* the presentation engine signals the semaphore of a successful acquire
SemaphoreSignal ==
    \E s \in Slots :
       /\ imgAvail[s] = "pending"
       /\ imgAvail' = [imgAvail EXCEPT ![s] = "signaled"]
       /\ UNCHANGED <<cpuVars, winVars, swapVars, fence, queue, frameVars, snap,
                      histVars, tdVars>>

\* the oldest submission starts once its wait semaphore is signaled, which
\* unsignals the semaphore; a submission whose wait was dropped starts at once
GpuBegin ==
    /\ queue # <<>>
    /\ Head(queue).state = "queued"
    /\ IF Head(queue).waits
          THEN /\ imgAvail[Head(queue).slot] = "signaled"
               /\ imgAvail' = [imgAvail EXCEPT ![Head(queue).slot] = "unsignaled"]
          ELSE imgAvail' = imgAvail
    /\ queue' = <<[Head(queue) EXCEPT !.state = "running"]>> \o Tail(queue)
    /\ UNCHANGED <<cpuVars, winVars, swapVars, fence, frameVars, snap,
                   histVars, tdVars>>

\* the running submission retires and signals its slot's fence
GpuRetire ==
    /\ queue # <<>>
    /\ Head(queue).state = "running"
    /\ fence' = [fence EXCEPT ![Head(queue).slot] = TRUE]
    /\ queue' = Tail(queue)
    /\ UNCHANGED <<cpuVars, winVars, swapVars, imgAvail, frameVars, snap,
                   histVars, tdVars>>

Gpu ==
    \/ SemaphoreSignal
    \/ GpuBegin
    \/ GpuRetire

(* ------------------------------- teardown ------------------------------ *)

\* The sources hold three teardown sequences of the core: the destructor of
\* Vulkan.cxx, the destructor of the revision before it and the shutdown() of
\* the first revision (both in part_000).  Each is one action here; at most
\* one of them runs, once.  tdLog lists the calls it issued.

Range(seq) == {seq[i] : i \in 1 .. Len(seq)}

vkDeviceWaitIdle == "vkDeviceWaitIdle"

\* for (i < MAX_FRAMES_IN_FLIGHT) { vkDestroySemaphore(imageAvailableSemaphores.at(i));
\* vkDestroySemaphore(renderFinishedSemaphores.at(i)); vkDestroyFence(inFlightFences.at(i)); }
SyncObjects ==
    <<"imageAvailableSemaphores", "renderFinishedSemaphores", "inFlightFences">>

\* vkDestroyCommandPool(transferCommandPool); vkDestroyCommandPool(graphicsCommandPool)
CommandPools == <<"transferCommandPool", "graphicsCommandPool">>

\* Vulkan::destroySwapChain: every framebuffer, every image view, the swap chain
destroySwapChain == <<"frameBuffers", "imageViews", "swapChain">>

\* the members destroySwapChain leaves holding the handle it destroyed: the
\* framebuffer and image-view entries are set to VK_NULL_HANDLE, swapChain is not
destroySwapChainStale == {"swapChain"}

\* the destroy calls a teardown issues on objects: a call on VK_NULL_HANDLE
\* is no call, a member that was not nulled passes the handle it still holds
DestroyCalls(order, stale) ==
    SelectSeq(order, LAMBDA o : handle[o] # VK_NULL_HANDLE \/ o \in stale)

\* a teardown path: the device-idle wait when the path has one, then the
\* destroy calls in the path's order
Teardown(path, drains, order, stale) ==
    /\ teardown = "none"
    /\ drains => queue = <<>>
    /\ teardown' = path
    /\ LET calls == DestroyCalls(order, stale) IN
          /\ tdLog' = (IF drains THEN <<vkDeviceWaitIdle>> ELSE <<>>) \o calls
          /\ destroyedTwice' = {o \in Range(calls) : handle[o] = VK_NULL_HANDLE}
          /\ handle' = [o \in Objects |->
                           IF o \in Range(calls) THEN VK_NULL_HANDLE ELSE handle[o]]
    /\ UNCHANGED <<cpuVars, winVars, generation, nImages, nViews, nFBs, gpuVars,
                   frameVars, snap, histVars>>

\* Vulkan::~Vulkan of Vulkan.cxx, run on the object whose constructor returned
\* (the window was closed): waitForDeviceIdle, the sync objects, the command
\* pools; after the body the members' destructors run, of which the sources
\* hold ImageViews::~ImageViews
VulkanDestructor ==
    /\ pc = "closed"
    /\ Teardown("~Vulkan", TRUE, SyncObjects \o CommandPools \o <<"imageViews">>, {})

\* an exception raised in the frame loop leaves the constructor of Vulkan.cxx:
\* the destructor body does not run for an object whose constructor did not
\* return, the members constructed so far are destroyed (ImageViews::~ImageViews)
ConstructorUnwind ==
    /\ pc = "thrown"
    /\ Teardown("unwind", FALSE, <<"imageViews">>, {})

\* Vulkan::~Vulkan of the revision before (part_000:170-189), whose frame loop
\* is outside the constructor, so that the destructor also runs after an
\* exception: waitForDeviceIdle, destroySwapChain, [vertex and index buffer,]
\* pipeline, [pipeline layout,] render pass, sync objects, command pools
VulkanDestructorPrevious ==
    /\ pc \in {"closed", "thrown"}
    /\ Teardown("~Vulkan previous", TRUE,
                destroySwapChain \o <<"graphicsPipeline", "renderPass">>
                    \o SyncObjects \o CommandPools,
                destroySwapChainStale)

\* Vulkan::shutdown of the first revision (part_000:287-313): sync objects,
\* the command pool, framebuffers, pipeline, [pipeline layout,] render pass,
\* image views, swap chain[, device, surface, instance]; no device-idle wait
shutdown ==
    /\ pc = "closed"
    /\ Teardown("shutdown", FALSE,
                SyncObjects \o <<"graphicsCommandPool", "frameBuffers",
                                 "graphicsPipeline", "renderPass", "imageViews",
                                 "swapChain">>,
                SwapObjects)

TeardownPaths ==
    \/ VulkanDestructor
    \/ ConstructorUnwind
    \/ VulkanDestructorPrevious
    \/ shutdown

(* --------------------------- the specification ------------------------- *)

Next ==
    \/ FrameLoop
    \/ renderFrame
    \/ recreateSwapChain
    \/ Gpu
    \/ TeardownPaths

Spec == Init /\ [][Next]_vars

\* the CPU thread takes its next step whenever it is not blocked in a call
CpuStep == FrameLoop \/ renderFrame \/ recreateSwapChain

\* a fair GPU and a running thread: a pending semaphore signal is delivered,
\* a submission whose wait is satisfied starts, a running submission retires,
\* and the thread goes on whenever the call it is in can return
Fairness ==
    /\ WF_vars(SemaphoreSignal)
    /\ WF_vars(GpuBegin)
    /\ WF_vars(GpuRetire)
    /\ WF_vars(CpuStep)

FairSpec == Spec /\ Fairness

(* ------------------------------ properties ----------------------------- *)

RebuildPcs ==
    {"rb_focus", "rb_loop", "rb_events", "rb_idle", "rb_reset_swapchain",
     "rb_reset_views", "rb_reset_framebuffers", "rb_create_swapchain",
     "rb_create_views", "rb_create_framebuffers", "rb_done"}

FocusPcs == {"rb_focus", "rb_loop", "rb_events"}

StaleStatuses == {VK_SUBOPTIMAL_KHR, VK_ERROR_OUT_OF_DATE_KHR}

\* submissions of slot s that have not retired
Outstanding(s) == {i \in 1 .. Len(queue) : queue[i].slot = s}

\* C1: when renderFrame is about to reset and re-record the command buffer of
\* the current slot, the slot's fence was waited on in this frame and no
\* earlier submission made for the slot is still outstanding.
C1_NoReuseWhileOutstanding ==
    pc = "record" => (waitedSlot = frameIndex /\ Outstanding(frameIndex) = {})

\* C2: a frame whose acquire reported out-of-date submits nothing and presents
\* nothing, and rebuilds the swap chain exactly once.
C2_OutOfDateSkipsFrame ==
    acqStatus = VK_ERROR_OUT_OF_DATE_KHR =>
        /\ subStatus = NoStatus
        /\ presStatus = NoStatus
        /\ rebuilds <= 1
        /\ (pc \in {"advance", "loop", "closed"} => rebuilds = 1)

\* C3: at most MAX_FRAMES_IN_FLIGHT submissions are outstanding on the
\* graphics queue.
C3_BoundedInFlight == Len(queue) <= MAX_FRAMES_IN_FLIGHT

\* C4: the image index that renderFrame is about to pass to command recording
\* or to present was stored by a successful acquire on the swap chain that is
\* current now.
C4_IndexOfCurrentSwapChain ==
    pc \in {"record", "present"} => (imageIndex # Uninit /\ imageGen = generation)

\* C5: whenever no rebuild is under way (in particular right after a completed
\* one) there are as many framebuffers as image views as swap-chain images.
C5_CountsAgree ==
    (pc \notin (RebuildPcs \ {"rb_done"}) /\ pc # "thrown") =>
        (nFBs = nViews /\ nViews = nImages /\ nImages >= 1)

\* C5 witness: a second rebuild completed, with the largest image count.
C5_Witness == pc = "rb_done" /\ generation = 3 /\ nFBs = MaxImages

\* C6 (as stated): when recreateSwapChain returns, the fixed objects' handles,
\* the signal state of fences and semaphores and frameIndex are all as they
\* were when it was entered.
C6_RebuildLeavesSyncStateAsItWas == pc = "rb_done" => snap = Snapshot

\* C6 amended: when recreateSwapChain returns, the fixed objects' handles and
\* frameIndex are as on entry; a fence signaled on entry is still signaled and
\* a semaphore unsignaled on entry is still unsignaled (signal state changes
\* only by the GPU finishing submitted work during the device-idle wait).
C6_RebuildKeepsHandles ==
    pc = "rb_done" =>
        /\ snap.taken
        /\ snap.handle = [o \in FixedObjects |-> handle[o]]
        /\ snap.frameIndex = frameIndex
        /\ \A s \in Slots : snap.fence[s] => fence[s]
        /\ \A s \in Slots : snap.imgAvail[s] = "unsignaled" => imgAvail[s] = "unsignaled"

\* C6 witness: a rebuild entered from present returns after the device-idle
\* wait let the frame's submission retire and signal its fence.
C6_Witness ==
    /\ pc = "rb_done"
    /\ ret = "present"
    /\ ~snap.fence[frameIndex]
    /\ fence[frameIndex]

\* C7: within one renderFrame the swap chain is recreated at most once: no
\* second swap chain is created, and once one was created in the frame no
\* further rebuild is begun in it.
C7_SingleRebuildPerFrame ==
    /\ rebuilds <= 1
    /\ rebuilds = 1 =>
          pc \notin (RebuildPcs \ {"rb_create_views", "rb_create_framebuffers", "rb_done"})

\* C8: during a rebuild, until a nonzero framebuffer extent was read, the
\* rebuild is still in its un-minimize wait: swap chain, image views and
\* framebuffers are all alive and no creation was attempted.
C8_RebuildBlocksWhileMinimized ==
    (pc \in RebuildPcs /\ fbSize # "nonzero") =>
        /\ pc \in FocusPcs
        /\ \A o \in SwapObjects : handle[o] = generation
        /\ nImages >= 1 /\ nViews = nImages /\ nFBs = nImages

\* C8 witness: a rebuild that read a zero extent sits in the wait loop.
C8_Witness == pc = "rb_events" /\ fbSize = "zero" /\ ret = "present"

\* the thread sits in vkDeviceWaitIdle while the oldest submission waits on a
\* semaphore that is unsignaled with no signal pending: neither can go on
BlockedForever ==
    /\ pc = "rb_idle"
    /\ queue # <<>>
    /\ Head(queue).state = "queued"
    /\ Head(queue).waits
    /\ imgAvail[Head(queue).slot] = "unsignaled"

FatalStatusSeen ==
    \/ acqStatus = VK_ERROR_DEVICE_LOST
    \/ subStatus = VK_ERROR_DEVICE_LOST
    \/ presStatus = VK_ERROR_DEVICE_LOST

\* C9: a frame in which acquire or present reported out-of-date or suboptimal,
\* no call returned a fatal status and no creation of the rebuild failed,
\* returns normally: it has not raised, the process has not ended in it and it
\* is not blocked for good.
C9_StaleFrameReturnsNormally ==
    ((acqStatus \in StaleStatuses \/ presStatus \in StaleStatuses) /\ ~FatalStatusSeen) =>
        /\ pc = "thrown" => \E o \in SwapObjects : handle[o] = VK_NULL_HANDLE
        /\ pc # "crashed"
        /\ ~BlockedForever

\* C10: after a failed submission renderFrame has raised: the thread is out of
\* the frame loop, the frame was not presented and frameIndex is still the
\* slot of the failed frame.
C10_SubmitFailureIsFatal ==
    subStatus = VK_ERROR_DEVICE_LOST =>
        /\ pc = "thrown"
        /\ presStatus = NoStatus
        /\ frameIndex = waitedSlot

\* C10 witness: a submission failed in the second frame, while the first
\* frame's submission was still outstanding.
C10_Witness ==
    /\ subStatus = VK_ERROR_DEVICE_LOST
    /\ frames = 2
    /\ queue # <<>>


\* C11: a present status that is neither success nor a stale indication (a
\* lost device) ends the frame loop with a fatal error whatever the resize
\* flag holds; the frame never goes on to a rebuild and a normal return.
C11_PresentErrorIsFatal ==
    presStatus = VK_ERROR_DEVICE_LOST => pc = "thrown"

\* C12: an acquire status that is an error other than out-of-date raises and
\* leaves the frame's state as it was: the slot's fence stays signaled, no
\* semaphore signal is pending for the slot, nothing was recorded, submitted
\* or presented, no rebuild ran and frameIndex is the slot that was waited on.
C12_AcquireErrorLeavesFrameState ==
    acqStatus = VK_ERROR_DEVICE_LOST =>
        /\ pc = "thrown"
        /\ fence[frameIndex]
        /\ imgAvail[frameIndex] # "pending"
        /\ imageIndex = Uninit
        /\ subStatus = NoStatus
        /\ presStatus = NoStatus
        /\ rebuilds = 0
        /\ frameIndex = waitedSlot
        /\ frameIndex = (frames - 1) % MAX_FRAMES_IN_FLIGHT

\* the acquire of a later frame failed after frames that went through
C12_Witness ==
    /\ acqStatus = VK_ERROR_DEVICE_LOST
    /\ pc = "thrown"
    /\ frames = MaxFrames
    /\ generation > 1


\* C13: destroying the swap-chain resources is idempotent: no destroy call is
\* issued on a framebuffer, image view or swap chain that was destroyed
\* already and not created again.
C13_DestroyIsIdempotent == destroyedTwice = {}

\* C14: every shutdown path drains the device before it releases anything:
\* the first call of a teardown that destroys an object is the device-idle
\* wait, and no submission is outstanding once objects are destroyed.
C14_ShutdownDrainsFirst ==
    tdLog # <<>> => tdLog[1] = vkDeviceWaitIdle /\ queue = <<>>

\* the order in which teardown is to destroy the core-owned objects
TeardownOrder ==
    << {"imageAvailableSemaphores", "renderFinishedSemaphores", "inFlightFences"},
       {"transferCommandPool", "graphicsCommandPool"},
       {"frameBuffers"},
       {"imageViews"},
       {"swapChain"},
       {"graphicsPipeline", "renderPass"} >>

TeardownRank(o) == CHOOSE i \in 1 .. Len(TeardownOrder) : o \in TeardownOrder[i]

\* C15: teardown destroys the core-owned objects in the order fences and
\* semaphores, command pools, framebuffers, image views, swap chain, pipeline
\* and render pass: no object is destroyed after one of a later class.
C15_TeardownOrder ==
    \A i, j \in 1 .. Len(tdLog) :
        (i < j /\ tdLog[i] # vkDeviceWaitIdle /\ tdLog[j] # vkDeviceWaitIdle)
            => TeardownRank(tdLog[i]) <= TeardownRank(tdLog[j])


\* the calls of one frame, in the order renderFrame makes them
FrameOrder == <<"wait", "acquire", "record", "submit", "present">>

IsPrefix(a, b) == Len(a) <= Len(b) /\ a = SubSeq(b, 1, Len(a))

\* C16: with no resize notification and every acquire and present returning
\* success, the N renderFrame calls made so far performed exactly N acquire,
\* N submit and N present operations, every frame makes its calls in the order
\* wait, acquire, record, submit, present, and the fence waited on in frame k
\* (counted from 0) is that of slot k mod MAX_FRAMES_IN_FLIGHT.
C16_CleanFramesCycle ==
    clean =>
        /\ IsPrefix(frameOps, FrameOrder)
        /\ waitedSlot # NoSlot => waitedSlot = (frames - 1) % MAX_FRAMES_IN_FLIGHT
        /\ pc \in {"loop", "closed"} =>
              /\ nAcquire = frames
              /\ nSubmit = frames
              /\ nPresent = frames
              /\ frames > 0 => frameOps = FrameOrder

\* MaxFrames clean frames went through on a swap chain of a single image
C16_Witness ==
    /\ clean
    /\ pc = "loop"
    /\ frames = MaxFrames
    /\ nPresent = MaxFrames
    /\ nImages = 1
    /\ waitedSlot = (MaxFrames - 1) % MAX_FRAMES_IN_FLIGHT


\* C17: a resize notification is never lost: a present made while the resize
\* flag is set clears the flag and enters the rebuild, whatever status the
\* present returns, and no step clears the flag without entering the rebuild.
C17_ResizeNeverLost ==
    [][/\ (pc = "present" /\ pc' # "present" /\ framebufferResized)
            => (~framebufferResized' /\ pc' = "rb_focus" /\ ret' = "present")
       /\ (framebufferResized /\ ~framebufferResized')
            => (pc = "present" /\ pc' = "rb_focus")]_vars

\* a present that returned success was followed by a rebuild, which only the
\* resize flag can have asked for
C17_Witness ==
    /\ presStatus = VK_SUCCESS
    /\ ret = "present"
    /\ pc = "rb_done"
    /\ ~framebufferResized

\* C18: frameIndex is always in [0, MAX_FRAMES_IN_FLIGHT) and counts the
\* renderFrame calls that returned, modulo MAX_FRAMES_IN_FLIGHT: every call
\* that returns advances it by one, whatever image was acquired and whether
\* or not a rebuild ran, and nothing else changes it.
C18_FrameIndexCountsFrames ==
    /\ frameIndex \in Slots
    /\ frameIndex =
          (IF pc \in {"loop", "closed"} THEN frames ELSE frames - 1)
              % MAX_FRAMES_IN_FLIGHT

\* MaxFrames frames returned, with rebuilds among them
C18_Witness ==
    /\ pc = "loop"
    /\ frames = MaxFrames
    /\ generation > 2
    /\ frameIndex = MaxFrames % MAX_FRAMES_IN_FLIGHT


\* C19: for every submission made for slot n, the GPU work runs only after
\* the slot's imageAvailable semaphore was signaled for the acquire of the
\* submission's own frame, and the fence of slot n is not signaled while a
\* submission made for the slot has not retired.
C19_SubmissionOrderedBySemaphoreAndFence ==
    /\ \A i \in 1 .. Len(queue) :
          queue[i].state = "running" => queue[i].acquired
    /\ \A s \in Slots : Outstanding(s) # {} => ~fence[s]

\* a fence is unsignaled and no outstanding submission will signal it
OrphanFence(s) == ~fence[s] /\ Outstanding(s) = {}

C21_SuboptimalAcquireRebuildsAfterPresent ==
    (acqStatus = VK_SUBOPTIMAL_KHR /\ pc \in {"advance", "loop", "closed"}) =>
        /\ subStatus = VK_SUCCESS
        /\ presStatus # NoStatus
        /\ rebuilds = 1

\* the parts of recreateSwapChain that destroy and create objects
DestroyCreatePcs ==
    {"rb_reset_swapchain", "rb_reset_views", "rb_reset_framebuffers",
     "rb_create_swapchain", "rb_create_views", "rb_create_framebuffers", "rb_done"}

\* C22: at no point during a rebuild does a framebuffer or an image view
\* exist whose swap chain has already been destroyed: the framebuffers and
\* the image views are destroyed before the swap chain and created after it.
C22_RebuildOrder ==
    (pc \in RebuildPcs /\ handle["swapChain"] = VK_NULL_HANDLE) =>
        /\ handle["imageViews"] = VK_NULL_HANDLE
        /\ handle["frameBuffers"] = VK_NULL_HANDLE

C24_NoHang ==
    /\ (pc = "wait") ~> (pc # "wait")
    /\ (pc = "rb_idle") ~> (pc # "rb_idle")
    /\ (queue # <<>>) ~> (queue = <<>>)


\* C25: on every exit from the frame loop of Vulkan.cxx, by window close or
\* by an exception raised inside renderFrame, the device is drained before a
\* swap-chain, image-view or framebuffer object is destroyed, and every
\* per-slot semaphore and fence and both command pools are destroyed.
C25_ExitDrainsAndReleasesAll ==
    teardown \in {"~Vulkan", "unwind"} =>
        /\ (Range(tdLog) \cap SwapObjects # {}) => tdLog[1] = vkDeviceWaitIdle
        /\ \A o \in Range(SyncObjects) \cup Range(CommandPools) :
              handle[o] = VK_NULL_HANDLE

\* C26: in the un-minimize wait the thread waits for a window event only
\* while the extent it read last is zero: once a nonzero extent has been read
\* the rebuild goes on to the device-idle wait without a further event, and a
\* nonzero extent on entry skips the loop.
C26_NonzeroExtentNeedsNoEvent ==
    pc \in {"rb_loop", "rb_events"} => fbSize = "zero"

=============================================================================
